---- MODULE Spec2Model ----
(***************************************************************************)
(* Model of the security runbook agent: the triage, enrichment and browser *)
(* executor Lambda handlers (src/src/tools), the agent tools and the       *)
(* alert entry point (src/src/agent/security_agent.py), and the incident   *)
(* state store and approval gateway the specification describes, of which  *)
(* the repository holds only the declarations (the stack).                 *)
(*                                                                         *)
(* Confidence and score are floats in the source.  They are modelled as    *)
(* exact fixed-point numbers: a confidence c stands for c / ConfScale and  *)
(* a score s for s / ConfScale.                                            *)
(***************************************************************************)
EXTENDS Integers, Sequences, FiniteSets, TLC

VARIABLES
    triageEvent,    \* the event handed to triage.lambda_handler
    triageOut,      \* the responses triage.lambda_handler returned for it, in order
    runs,           \* the agent runs analyze_security_alert has started, in order
    decision,       \* per run, what the human on the approval channel has decided
    execLog,        \* the invocations of browser_executor.lambda_handler, in order
    applied,        \* the security actions the executor has carried out, in order
    clock,          \* what datetime.utcnow() returns
    usedReq,        \* the aws_request_id values Lambda has handed out
    history,        \* IncidentStateStore: the event log of the incident
    snapshot,       \* IncidentStateStore: the current snapshot of the incident
    pc,             \* per worker: where it is in its read / append / apply cycle
    view,           \* per worker: the incident in its memory
    pending,        \* per worker: the event it appended and has not applied yet
    lastAppended,   \* per worker: the sequence number of its last append
    requests,       \* ApprovalGateway: the approval requests by request id
    callbacks,      \* ApprovalGateway: the answer to the last decision callback
    gwClock,        \* ApprovalGateway: the time
    nvPc,           \* nova_executor.lambda_handler: where the invocation is
    nvEvent,        \* nova_executor.lambda_handler: its event
    nvSessionId,    \* SecurityActionExecutor.session_id
    nvOutcome,      \* what the invocation returns or raises
    nvSessions,     \* the browser sessions that are open at the backend
    nvCreated,      \* the browser sessions the backend has created
    nvDeletes,      \* the session ids delete_browser_session was called with, in order
    nvFailed,       \* the session ids whose delete_browser_session call failed
    nvCount,        \* invocations of nova_executor.lambda_handler so far
    enEvent,        \* the event handed to enrichment.lambda_handler
    enOut,          \* what enrichment.lambda_handler returned for it
    enVerdict       \* what triage.lambda_handler made of an enrichment

triageVars == <<triageEvent, triageOut>>
agentVars == <<runs, decision>>
execVars == <<execLog, applied, clock, usedReq>>
storeVars == <<history, snapshot, pc, view, pending, lastAppended>>
gatewayVars == <<requests, callbacks, gwClock>>
novaVars == <<nvPc, nvEvent, nvSessionId, nvOutcome, nvSessions, nvCreated,
              nvDeletes, nvFailed, nvCount>>
enrichVars == <<enEvent, enOut, enVerdict>>

\* what the actions of one part leave alone
notTriage == <<agentVars, execVars, storeVars, gatewayVars, novaVars, enrichVars>>
notAgent == <<triageVars, execVars, storeVars, gatewayVars, novaVars, enrichVars>>
notExec == <<triageVars, agentVars, storeVars, gatewayVars, novaVars, enrichVars>>
notStore == <<triageVars, agentVars, execVars, gatewayVars, novaVars, enrichVars>>
notGateway == <<triageVars, agentVars, execVars, storeVars, novaVars, enrichVars>>
notNova == <<triageVars, agentVars, execVars, storeVars, gatewayVars, enrichVars>>
notEnrich == <<triageVars, agentVars, execVars, storeVars, gatewayVars, novaVars>>

vars == <<triageEvent, triageOut, runs, decision, execLog, applied, clock, usedReq,
          history, snapshot, pc, view, pending, lastAppended,
          requests, callbacks, gwClock,
          nvPc, nvEvent, nvSessionId, nvOutcome, nvSessions, nvCreated,
          nvDeletes, nvFailed, nvCount,
          enEvent, enOut, enVerdict>>

(***************************************************************************)
(* Bounds of the model.                                                    *)
(***************************************************************************)
ConfScale == 100        \* confidences are the grid 0/ConfScale .. ConfScale/ConfScale
MaxTriageCalls == 2     \* invocations of the triage handler on one event
MaxRuns == 2            \* calls of analyze_security_alert
MaxAlertId == 2         \* alert ids are 1..MaxAlertId
MaxInvocations == 2     \* invocations of the browser executor Lambda
MaxClock == 2           \* the clock reads 0..MaxClock
RequestIdLen == 2       \* characters of an aws_request_id
PrefixLen == 1          \* characters of it the session id keeps ([:8] of a UUID)
MaxWorkers == 2         \* workers acting on the incident
MaxRequests == 2        \* approval requests
MaxGwClock == 3         \* the gateway's clock reads 0..MaxGwClock
ApprovalTimeout == 2    \* the timeout handed to requestApproval
MaxNovaInvocations == 3 \* invocations of the browser-session executor Lambda

(***************************************************************************)
(* Values.                                                                 *)
(***************************************************************************)
NoKey == "<absent>"     \* a key the dict does not hold: dict.get(key) is None
NoConfidence == 0 - 1   \* the enrichment dict holds no "confidence" key
Reputations == {"unknown", "benign", "suspicious", "malicious"}
Severities == {"LOW", "MEDIUM", "HIGH", "CRITICAL"}
Confidences == 0..ConfScale

(***************************************************************************)
(* Each part of the program has a specification of its own; meanwhile      *)
(* the other parts then rest in these states.                              *)
(***************************************************************************)
AgentIdle ==
    /\ runs = <<>>
    /\ decision = <<>>

ExecIdle ==
    /\ execLog = <<>>
    /\ applied = <<>>
    /\ clock = 0
    /\ usedReq = {}

Workers == 1..MaxWorkers
RequestIdsGw == 1..MaxRequests
EmptySnapshot == [state |-> "NONE", version |-> 0]
NoEvent == [seq |-> 0, from |-> "NONE", to |-> "NONE"]
NoRequest == [status |-> "none", createdAt |-> 0, decidedAt |-> 0]

StoreIdle ==
    /\ history = <<>>
    /\ snapshot = EmptySnapshot
    /\ pc = [w \in Workers |-> "start"]
    /\ view = [w \in Workers |-> EmptySnapshot]
    /\ pending = [w \in Workers |-> NoEvent]
    /\ lastAppended = [w \in Workers |-> 0]

GatewayIdle ==
    /\ requests = [r \in RequestIdsGw |-> NoRequest]
    /\ callbacks = [r \in RequestIdsGw |-> 0]
    /\ gwClock = 0

NoSession == 0           \* session_id = None
NoNovaEvent == [action |-> NoKey, parameters |-> [target_ip |-> NoKey, reason |-> NoKey]]
NoEnrichEvent == [indicator |-> NoKey, type |-> NoKey]
NoResponse == [statusCode |-> 0]
NoVerdict == [via |-> "none",
              enrichment |-> [reputation |-> NoKey, confidence |-> NoConfidence],
              verdict |-> [severity |-> "none", score |-> 0, requires_approval |-> FALSE]]

NovaIdle ==
    /\ nvPc = "idle"
    /\ nvEvent = NoNovaEvent
    /\ nvSessionId = NoSession
    /\ nvOutcome = "none"
    /\ nvSessions = {}
    /\ nvCreated = {}
    /\ nvDeletes = <<>>
    /\ nvFailed = {}
    /\ nvCount = 0

EnrichIdle ==
    /\ enEvent = NoEnrichEvent
    /\ enOut = NoResponse
    /\ enVerdict = NoVerdict

TriageIdle ==
    /\ triageEvent = [enrichment |-> [reputation |-> NoKey, confidence |-> NoConfidence]]
    /\ triageOut = <<>>

(***************************************************************************)
(* triage.lambda_handler                                                   *)
(***************************************************************************)
\* enrichment.get("confidence", 0)
GetConfidence(enrichment) ==
    IF enrichment.confidence = NoConfidence THEN 0 ELSE enrichment.confidence

\* score = 0; +50 if malicious, elif suspicious +30; += confidence * 30
TriageScore(enrichment) ==
    LET base == IF enrichment.reputation = "malicious" THEN 50 * ConfScale
                ELSE IF enrichment.reputation = "suspicious" THEN 30 * ConfScale
                ELSE 0
    IN  base + GetConfidence(enrichment) * 30

\* the if/elif chain on the score, highest threshold first
TriageSeverity_Strict(score) ==
    IF score > 80 * ConfScale THEN <<"CRITICAL", TRUE>>
    ELSE IF score > 60 * ConfScale THEN <<"HIGH", TRUE>>
    ELSE IF score > 40 * ConfScale THEN <<"MEDIUM", FALSE>>
    ELSE <<"LOW", FALSE>>

TriageSeverity(score) ==
    IF score >= 80 * ConfScale THEN <<"CRITICAL", TRUE>>
    ELSE IF score >= 60 * ConfScale THEN <<"HIGH", TRUE>>
    ELSE IF score >= 40 * ConfScale THEN <<"MEDIUM", FALSE>>
    ELSE <<"LOW", FALSE>>

\* the handler: event -> {"severity", "score", "requires_approval"}
TriageHandler(event) ==
    LET score == TriageScore(event.enrichment)
        sev   == TriageSeverity(score)
    IN  [severity |-> sev[1], score |-> score, requires_approval |-> sev[2]]

TriageEvents ==
    [enrichment : [reputation : Reputations \cup {NoKey},
                   confidence : Confidences \cup {NoConfidence}]]

TriageInit ==
    /\ triageEvent \in TriageEvents
    /\ triageOut = <<>>
    /\ AgentIdle
    /\ ExecIdle
    /\ StoreIdle
    /\ NovaIdle
    /\ EnrichIdle
    /\ GatewayIdle

\* one invocation of the triage Lambda on the event
InvokeTriage ==
    /\ Len(triageOut) < MaxTriageCalls
    /\ triageOut' = Append(triageOut, TriageHandler(triageEvent))
    /\ UNCHANGED <<triageEvent, notTriage>>

TriageNext == InvokeTriage

TriageSpec == TriageInit /\ [][TriageNext]_vars

(***************************************************************************)
(* enrichment.lambda_handler                                               *)
(***************************************************************************)
\* a confidence literal of the threat table, given in hundredths
TableConfidence(hundredths) == (hundredths * ConfScale) \div 100

\* threat_data: type -> indicator -> reputation data
ThreatData ==
    [ip |->
        ("192.168.1.100" :> [reputation |-> "suspicious",
                             confidence |-> TableConfidence(65),
                             category |-> "C2_server"]) @@
        ("10.0.0.50" :> [reputation |-> "malicious",
                         confidence |-> TableConfidence(92),
                         category |-> "malware_host"]),
     domain |->
        ("malicious-site.com" :> [reputation |-> "malicious",
                                  confidence |-> TableConfidence(98),
                                  category |-> "phishing"]),
     hash |->
        ("d41d8cd98f00b204e9800998ecf8427e" :> [reputation |-> "malicious",
                                                confidence |-> TableConfidence(88),
                                                category |-> "ransomware"])]

\* the default of lookup_dict.get(indicator, {...})
UnknownReputation ==
    [reputation |-> "unknown", confidence |-> 0, category |-> "unknown"]

\* threat_data.get(indicator_type, {}).get(indicator, default)
\* (and the same lookup, were the kind of the indicator ignored)
LookupReputation_AnyKind(indicator, indicator_type) ==
    IF \E kind \in DOMAIN ThreatData : indicator \in DOMAIN ThreatData[kind]
    THEN LET kind == CHOOSE k \in DOMAIN ThreatData : indicator \in DOMAIN ThreatData[k]
         IN  ThreatData[kind][indicator]
    ELSE UnknownReputation

LookupReputation(indicator, indicator_type) ==
    IF indicator_type \in DOMAIN ThreatData
       /\ indicator \in DOMAIN ThreatData[indicator_type]
    THEN ThreatData[indicator_type][indicator]
    ELSE UnknownReputation

\* the handler: event -> {"statusCode", "body"}
EnrichmentHandler(event) ==
    LET indicator      == IF event.indicator = NoKey THEN "" ELSE event.indicator
        indicator_type == IF event.type = NoKey THEN "ip" ELSE event.type
        data           == LookupReputation(indicator, indicator_type)
    IN  IF indicator = ""
        THEN [statusCode |-> 400, body |-> [error |-> "No indicator provided"]]
        ELSE [statusCode |-> 200,
              body |-> [indicator |-> indicator,
                        type |-> indicator_type,
                        reputation |-> data.reputation,
                        confidence |-> data.confidence,
                        category |-> data.category,
                        sources |-> <<"Mock Threat Intel DB">>]]

(***************************************************************************)
(* Enrichment followed by triage: the enrichment Lambda is invoked on an   *)
(* event, and the triage Lambda on the body it returned, or on any         *)
(* enrichment dict at all.                                                 *)
(***************************************************************************)
EnrichIndicators ==
    {"192.168.1.100", "10.0.0.50", "malicious-site.com",
     "d41d8cd98f00b204e9800998ecf8427e", "8.8.8.8", "", NoKey}

EnrichTypes == {"ip", "domain", "hash", "url", NoKey}

EnrichEvents == [indicator : EnrichIndicators, type : EnrichTypes]

\* what triage reads of an enrichment dict: .get("reputation"), .get("confidence", 0)
TriageView(body) ==
    [reputation |-> body.reputation, confidence |-> body.confidence]

EnrichInit ==
    /\ enEvent \in EnrichEvents
    /\ enOut = NoResponse
    /\ enVerdict = NoVerdict
    /\ TriageIdle
    /\ AgentIdle
    /\ ExecIdle
    /\ StoreIdle
    /\ GatewayIdle
    /\ NovaIdle

\* one invocation of the enrichment Lambda on the event
InvokeEnrichment ==
    /\ enOut = NoResponse
    /\ enOut' = EnrichmentHandler(enEvent)
    /\ UNCHANGED <<enEvent, enVerdict, notEnrich>>

\* the triage Lambda on the body the enrichment Lambda returned
ClassifyEnrichment ==
    /\ enOut # NoResponse
    /\ enOut.statusCode = 200
    /\ enVerdict = NoVerdict
    /\ LET enrichment == TriageView(enOut.body)
       IN  enVerdict' = [via |-> "enrichment",
                         enrichment |-> enrichment,
                         verdict |-> TriageHandler([enrichment |-> enrichment])]
    /\ UNCHANGED <<enEvent, enOut, notEnrich>>

\* the triage Lambda on an enrichment dict of the caller's making
ClassifyDirect(event) ==
    /\ enVerdict = NoVerdict
    /\ enVerdict' = [via |-> "direct",
                     enrichment |-> event.enrichment,
                     verdict |-> TriageHandler(event)]
    /\ UNCHANGED <<enEvent, enOut, notEnrich>>

EnrichNext ==
    \/ InvokeEnrichment
    \/ ClassifyEnrichment
    \/ \E event \in TriageEvents : ClassifyDirect(event)

EnrichSpec == EnrichInit /\ [][EnrichNext]_vars

(***************************************************************************)
(* security_agent.py: the alert entry point and the agent's tools.         *)
(*                                                                         *)
(* analyze_security_alert hands the alert to the language-model agent in a *)
(* prompt; which tools the agent then calls, in which order and with which *)
(* arguments, is the model's choice: the code puts no condition on any     *)
(* tool call.  A run is the agent's work on one call of                    *)
(* analyze_security_alert.                                                 *)
(*                                                                         *)
(* The module never imports json, so the three tools that build a Lambda   *)
(* payload with json.dumps raise NameError while evaluating the arguments  *)
(* of lambda_client.invoke, before any Lambda is invoked.                  *)
(***************************************************************************)
SourceIps == {"10.0.0.50", "192.168.1.100"}
Alerts == [alert_id : 1..MaxAlertId, source_ip : SourceIps]
NoApproval == [severity |-> "none", approved |-> FALSE]
HumanDecisions == {"Approved", "Denied"}

\* the state of a run when agent(prompt) starts
NewRun(alert) ==
    [alert    |-> alert,
     enrich   |-> "not_called",     \* enrich_threat_intel
     classify |-> "not_called",     \* classify_severity
     execute  |-> "not_called",     \* execute_quarantine
     approval |-> NoApproval,       \* what request_quarantine_approval returned
     returned |-> FALSE]            \* analyze_security_alert has returned

\* a tool body up to json.dumps: logs, creates the client, raises NameError
PayloadToolOutcome == "raised"

\* request_quarantine_approval(target, severity, reason) -> bool
RequestApprovalResult(severity) ==
    IF severity \in {"HIGH", "CRITICAL"} THEN TRUE ELSE TRUE

\* what the enrichment and triage handlers make of the alert's source ip
AlertVerdict(alert) ==
    TriageHandler([enrichment |->
        EnrichmentHandler([indicator |-> alert.source_ip, type |-> "ip"]).body])

Running(r) == r \in DOMAIN runs /\ ~runs[r].returned

\* analyze_security_alert(alert): builds the prompt and starts the agent
AnalyzeSecurityAlert(alert) ==
    /\ Len(runs) < MaxRuns
    /\ runs' = Append(runs, NewRun(alert))
    /\ decision' = Append(decision, "none")
    /\ UNCHANGED notAgent

\* the agent calls enrich_threat_intel
EnrichThreatIntel(r) ==
    /\ Running(r)
    /\ runs' = [runs EXCEPT ![r].enrich = PayloadToolOutcome]
    /\ UNCHANGED <<decision, notAgent>>

\* the agent calls classify_severity
ClassifySeverity(r) ==
    /\ Running(r)
    /\ runs' = [runs EXCEPT ![r].classify = PayloadToolOutcome]
    /\ UNCHANGED <<decision, notAgent>>

\* the agent calls request_quarantine_approval with a severity of its choice
RequestQuarantineApproval(r, severity) ==
    /\ Running(r)
    /\ runs' = [runs EXCEPT ![r].approval =
                    [severity |-> severity,
                     approved |-> RequestApprovalResult(severity)]]
    /\ UNCHANGED <<decision, notAgent>>

\* the agent calls execute_quarantine
ExecuteQuarantine(r) ==
    /\ Running(r)
    /\ runs' = [runs EXCEPT ![r].execute = PayloadToolOutcome]
    /\ UNCHANGED <<decision, notAgent>>

\* agent(prompt) returns and analyze_security_alert builds its result
AgentReturns(r) ==
    /\ Running(r)
    /\ runs' = [runs EXCEPT ![r].returned = TRUE]
    /\ UNCHANGED <<decision, notAgent>>

\* the subscriber of the approval topic makes up their mind about a run;
\* no code of the repository publishes to the topic or reads a decision
HumanDecides(r, d) ==
    /\ r \in DOMAIN runs
    /\ decision[r] = "none"
    /\ decision' = [decision EXCEPT ![r] = d]
    /\ UNCHANGED <<runs, notAgent>>

Init ==
    /\ AgentIdle
    /\ TriageIdle
    /\ ExecIdle
    /\ StoreIdle
    /\ NovaIdle
    /\ EnrichIdle
    /\ GatewayIdle

Next ==
    \/ \E alert \in Alerts : AnalyzeSecurityAlert(alert)
    \/ \E r \in 1..MaxRuns : EnrichThreatIntel(r)
    \/ \E r \in 1..MaxRuns : ClassifySeverity(r)
    \/ \E r \in 1..MaxRuns, severity \in Severities : RequestQuarantineApproval(r, severity)
    \/ \E r \in 1..MaxRuns : ExecuteQuarantine(r)
    \/ \E r \in 1..MaxRuns : AgentReturns(r)
    \/ \E r \in 1..MaxRuns, d \in HumanDecisions : HumanDecides(r, d)

Spec == Init /\ [][Next]_vars

(***************************************************************************)
(* browser_executor.lambda_handler                                         *)
(*                                                                         *)
(* The handler keeps no state and takes no action id: what identifies an   *)
(* action is its event (the kind and the parameters).  The body, a JSON    *)
(* text of the result dict, is modelled by the dict.                       *)
(***************************************************************************)
ExecActions == {"quarantine", "isolate", "block_domain", "reboot", NoKey}
NoParams == [target_ip |-> NoKey, reason |-> NoKey, hostname |-> NoKey, domain |-> NoKey]
ExecParams ==
    {NoParams,
     [NoParams EXCEPT !.target_ip = "10.0.0.50", !.reason = "malware"],
     [NoParams EXCEPT !.hostname = "host-1"],
     [NoParams EXCEPT !.domain = "malicious-site.com"]}
ExecEvents == [action : ExecActions, parameters : ExecParams]
RequestIds == [1..RequestIdLen -> {"a", "b"}]

\* dict.get(key, default)
Get(value, default) == IF value = NoKey THEN default ELSE value

\* f"demo-session-{context.aws_request_id[:8]}"
SessionId(context) ==
    <<"demo-session-">> \o SubSeq(context.aws_request_id, 1, PrefixLen)

\* the handler: (event, context) -> {"statusCode", "body"}; now is utcnow()
BrowserExecutorHandler(event, context, now) ==
    LET action == event.action
        params == event.parameters
    IN  IF action = NoKey
        THEN [statusCode |-> 400, body |-> [error |-> <<"No action specified">>]]
        ELSE IF action = "quarantine"
        THEN LET target_ip == Get(params.target_ip, "unknown")
                 reason    == Get(params.reason, "Security alert")
             IN  [statusCode |-> 200,
                  body |-> [success |-> TRUE,
                            action |-> "quarantine",
                            target |-> target_ip,
                            reason |-> reason,
                            timestamp |-> now,
                            session_id |-> SessionId(context),
                            recording_url |-> "session-123.mp4",
                            message |-> <<"Demo: Successfully quarantined IP", target_ip>>,
                            audit_trail |-> <<<<"Navigated to firewall console">>,
                                              <<"Added", target_ip, "to blocklist">>,
                                              <<"Saved configuration">>,
                                              <<"Verified IP is blocked">>>>]]
        ELSE IF action = "isolate"
        THEN LET hostname == Get(params.hostname, "unknown")
             IN  [statusCode |-> 200,
                  body |-> [success |-> TRUE,
                            action |-> "isolate",
                            target |-> hostname,
                            timestamp |-> now,
                            message |-> <<"Demo: Successfully isolated endpoint", hostname>>]]
        ELSE IF action = "block_domain"
        THEN LET domain == Get(params.domain, "unknown")
             IN  [statusCode |-> 200,
                  body |-> [success |-> TRUE,
                            action |-> "block_domain",
                            target |-> domain,
                            timestamp |-> now,
                            message |-> <<"Demo: Successfully blocked domain", domain>>]]
        ELSE [statusCode |-> 400, body |-> [error |-> <<"Unknown action:", action>>]]

\* one invocation of the executor Lambda.  lost: the response did not reach
\* the caller (a timeout or a network failure on the way back), which is
\* what the caller sees as a transient failure
InvokeBrowserExecutor(event, request_id, lost) ==
    /\ Len(execLog) < MaxInvocations
    /\ request_id \notin usedReq
    /\ LET response ==
              BrowserExecutorHandler(event, [aws_request_id |-> request_id], clock)
       IN  /\ execLog' = Append(execLog,
                  [event |-> event, response |-> response, lost |-> lost])
           /\ applied' = IF response.statusCode = 200
                         THEN Append(applied, [event |-> event,
                                               action |-> response.body.action,
                                               target |-> response.body.target])
                         ELSE applied
    /\ usedReq' = usedReq \cup {request_id}
    /\ UNCHANGED <<clock, notExec>>

\* time passes
Tick ==
    /\ clock < MaxClock
    /\ clock' = clock + 1
    /\ UNCHANGED <<execLog, applied, usedReq, notExec>>

ExecutorInit ==
    /\ ExecIdle
    /\ AgentIdle
    /\ TriageIdle
    /\ StoreIdle
    /\ NovaIdle
    /\ EnrichIdle
    /\ GatewayIdle

ExecutorNext ==
    \/ \E event \in ExecEvents, request_id \in RequestIds, lost \in BOOLEAN :
          InvokeBrowserExecutor(event, request_id, lost)
    \/ Tick

ExecutorSpec == ExecutorInit /\ [][ExecutorNext]_vars

\* how often the executor has carried out the action of an event
TimesApplied(event) == Cardinality({k \in DOMAIN applied : applied[k].event = event})

(***************************************************************************)
(* IncidentStateStore and the workers of the WorkflowEngine.               *)
(*                                                                         *)
(* The repository declares the state table (SecurityAgentState, in the     *)
(* stack) and hands its name to the Lambdas, but holds no code that reads  *)
(* or writes it.  The store and the workers' commit protocol are modelled  *)
(* from the specification: sections 4.1, 4.5, 5 and 6.  One incident is    *)
(* modelled; the store orders the events of each incident on its own.      *)
(***************************************************************************)
\* section 4.1: the transitions of the workflow; NONE is the empty state
NextStates(s) ==
    CASE s = "NONE"              -> {"RECEIVED"}
      [] s = "RECEIVED"          -> {"ENRICHING"}
      [] s = "ENRICHING"         -> {"CLASSIFIED"}
      [] s = "CLASSIFIED"        -> {"AWAITING_APPROVAL", "REMEDIATING"}
      [] s = "AWAITING_APPROVAL" -> {"REMEDIATING", "DENIED"}
      [] s = "REMEDIATING"       -> {"REMEDIATED", "FAILED"}
      [] s \in {"REMEDIATED", "DENIED", "FAILED"} -> {"CLOSED"}
      [] OTHER                   -> {}

WorkflowStates ==
    {"RECEIVED", "ENRICHING", "CLASSIFIED", "AWAITING_APPROVAL", "REMEDIATING",
     "REMEDIATED", "DENIED", "FAILED", "CLOSED"}

\* section 6: one step of the left fold of the event log
ApplyEvent(snap, event) ==
    [state |-> event.to, version |-> snap.version + 1]

\* section 6: the snapshot is the left fold of the log from the empty state
RECURSIVE Replay(_)
Replay(h) ==
    IF h = <<>> THEN EmptySnapshot
    ELSE ApplyEvent(Replay(SubSeq(h, 1, Len(h) - 1)), h[Len(h)])

\* section 4.5: append-if-expected-version
VersionMatches_Always(expected) == TRUE

VersionMatches(expected) == Len(history) = expected

\* section 4.1: what a worker holds in memory after a restart
RecoveredView_NoReplay(h) == EmptySnapshot

RecoveredView(h) == Replay(h)

\* readCurrent: a worker (re-)reads the incident before it acts
ReadCurrent(w) ==
    /\ pc[w] \in {"start", "conflict"}
    /\ view' = [view EXCEPT ![w] = snapshot]
    /\ pc' = [pc EXCEPT ![w] = "read"]
    /\ UNCHANGED <<history, snapshot, pending, lastAppended, notStore>>

\* append(incidentId, event) with the version the worker has read: the
\* commit point of the transition, or VersionConflictError
AppendTransition(w, to) ==
    /\ pc[w] \in {"read", "recovered"}
    /\ to \in NextStates(view[w].state)
    /\ LET event == [seq |-> Len(history) + 1, from |-> view[w].state, to |-> to]
       IN  IF VersionMatches(view[w].version)
           THEN /\ history' = Append(history, event)
                /\ snapshot' = ApplyEvent(snapshot, event)
                /\ pending' = [pending EXCEPT ![w] = event]
                /\ lastAppended' = [lastAppended EXCEPT ![w] = event.seq]
                /\ pc' = [pc EXCEPT ![w] = "appended"]
           ELSE /\ pc' = [pc EXCEPT ![w] = "conflict"]
                /\ UNCHANGED <<history, snapshot, pending, lastAppended>>
    /\ UNCHANGED <<view, notStore>>

\* the appended transition is applied to the state in memory
ApplyInMemory(w) ==
    /\ pc[w] = "appended"
    /\ view' = [view EXCEPT ![w] = ApplyEvent(view[w], pending[w])]
    /\ pending' = [pending EXCEPT ![w] = NoEvent]
    /\ pc' = [pc EXCEPT ![w] = "read"]
    /\ UNCHANGED <<history, snapshot, lastAppended, notStore>>

\* the worker's process dies: its memory is gone, the store is not
Crash(w) ==
    /\ pc[w] \notin {"crashed", "crashed_unapplied"}
    /\ pc' = [pc EXCEPT ![w] =
                 IF pc[w] = "appended" THEN "crashed_unapplied" ELSE "crashed"]
    /\ view' = [view EXCEPT ![w] = EmptySnapshot]
    /\ pending' = [pending EXCEPT ![w] = NoEvent]
    /\ UNCHANGED <<history, snapshot, lastAppended, notStore>>

\* restart: the worker rebuilds its memory by replaying readHistory
Restart(w) ==
    /\ pc[w] \in {"crashed", "crashed_unapplied"}
    /\ view' = [view EXCEPT ![w] = RecoveredView(history)]
    /\ pc' = [pc EXCEPT ![w] =
                 IF pc[w] = "crashed_unapplied" THEN "recovered" ELSE "read"]
    /\ UNCHANGED <<history, snapshot, pending, lastAppended, notStore>>

StoreInit ==
    /\ StoreIdle
    /\ NovaIdle
    /\ EnrichIdle
    /\ AgentIdle
    /\ TriageIdle
    /\ ExecIdle
    /\ GatewayIdle

StoreNext ==
    \/ \E w \in Workers : ReadCurrent(w)
    \/ \E w \in Workers, to \in WorkflowStates : AppendTransition(w, to)
    \/ \E w \in Workers : ApplyInMemory(w)
    \/ \E w \in Workers : Crash(w)
    \/ \E w \in Workers : Restart(w)

StoreSpec == StoreInit /\ [][StoreNext]_vars

(***************************************************************************)
(* ApprovalGateway.                                                        *)
(*                                                                         *)
(* The repository declares the approval topic and its subscriber (in the   *)
(* stack); request_quarantine_approval, the one caller, never creates a    *)
(* request.  The gateway is modelled from the specification: sections 3,   *)
(* 4.3 and 6.                                                              *)
(***************************************************************************)
\* section 4.3: a decision is taken only for a request that is Pending
ResolveAccepted_AnyKnown(request) == request.status # "none"

ResolveAccepted(request) == request.status = "Pending"

\* requestApproval: the engine enters the approval state
RequestApproval(rid) ==
    /\ requests[rid].status = "none"
    /\ requests' = [requests EXCEPT ![rid] =
                       [status |-> "Pending", createdAt |-> gwClock, decidedAt |-> 0]]
    /\ UNCHANGED <<callbacks, gwClock, notGateway>>

\* resolve(requestId, decision), the decision callback: 404 for an unknown
\* or expired request, 409 for one that is already decided
Resolve(rid, d) ==
    /\ IF requests[rid].status = "none"
       THEN /\ callbacks' = [callbacks EXCEPT ![rid] = 404]
            /\ UNCHANGED requests
       ELSE IF ResolveAccepted(requests[rid])
       THEN /\ requests' = [requests EXCEPT ![rid].status = d,
                                            ![rid].decidedAt = gwClock]
            /\ callbacks' = [callbacks EXCEPT ![rid] = 200]
       ELSE /\ callbacks' = [callbacks EXCEPT ![rid] =
                                IF requests[rid].status = "Expired" THEN 404 ELSE 409]
            /\ UNCHANGED requests
    /\ UNCHANGED <<gwClock, notGateway>>

\* the timeout of a request elapses with no decision
Expire(rid) ==
    /\ requests[rid].status = "Pending"
    /\ gwClock >= requests[rid].createdAt + ApprovalTimeout
    /\ requests' = [requests EXCEPT ![rid].status = "Expired",
                                    ![rid].decidedAt = gwClock]
    /\ UNCHANGED <<callbacks, gwClock, notGateway>>

\* time passes
GatewayTick ==
    /\ gwClock < MaxGwClock
    /\ gwClock' = gwClock + 1
    /\ UNCHANGED <<requests, callbacks, notGateway>>

GatewayInit ==
    /\ GatewayIdle
    /\ AgentIdle
    /\ TriageIdle
    /\ ExecIdle
    /\ StoreIdle
    /\ NovaIdle
    /\ EnrichIdle

GatewayNext ==
    \/ \E rid \in RequestIdsGw : RequestApproval(rid)
    \/ \E rid \in RequestIdsGw, d \in HumanDecisions : Resolve(rid, d)
    \/ \E rid \in RequestIdsGw : Expire(rid)
    \/ GatewayTick

GatewaySpec == GatewayInit /\ [][GatewayNext]_vars

(***************************************************************************)
(* nova_executor.py: the browser-session executor.                         *)
(*                                                                         *)
(* lambda_handler makes a SecurityActionExecutor, dispatches on the action *)
(* inside try, and calls executor.cleanup() in finally.  quarantine_host   *)
(* makes three backend calls in a row; each either answers or raises, and  *)
(* so does the delete call of cleanup.  The invocation is modelled step by *)
(* step, one step per backend call.                                        *)
(***************************************************************************)
NovaActions == {"quarantine", "isolate", NoKey}

\* event["parameters"]; an absent dict is {}, which holds neither key
NovaParams ==
    [target_ip : {"10.0.0.50", NoKey}, reason : {"malware", NoKey}]

NovaEvents == [action : NovaActions, parameters : NovaParams]

\* params["target_ip"] and params["reason"] raise KeyError on an absent key
HasRequiredParams(params) ==
    params.target_ip # NoKey /\ params.reason # NoKey

\* session_resp['sessionId']: the backend names each session it creates anew
NewSessionId == Cardinality(nvCreated) + 1

\* cleanup: if self.session_id:
CleanupDeletes_Never(session_id) == FALSE

CleanupDeletes(session_id) == session_id # NoSession

\* lambda_handler up to the call of quarantine_host, or to the finally block
NovaLambdaHandler(event) ==
    /\ nvPc \in {"idle", "done"}
    /\ nvCount < MaxNovaInvocations
    /\ nvCount' = nvCount + 1
    /\ nvEvent' = event
    /\ nvSessionId' = NoSession
    /\ IF event.action = "quarantine"
       THEN IF HasRequiredParams(event.parameters)
            THEN nvPc' = "create" /\ nvOutcome' = "none"
            ELSE nvPc' = "cleanup" /\ nvOutcome' = "raised"
       ELSE nvPc' = "cleanup" /\ nvOutcome' = "unknown_action"
    /\ UNCHANGED <<nvSessions, nvCreated, nvDeletes, nvFailed, notNova>>

\* quarantine_host: create_browser_session and self.session_id = ...
CreateBrowserSession(ok) ==
    /\ nvPc = "create"
    /\ IF ok
       THEN /\ nvCreated' = nvCreated \cup {NewSessionId}
            /\ nvSessions' = nvSessions \cup {NewSessionId}
            /\ nvSessionId' = NewSessionId
            /\ nvPc' = "invoke"
            /\ UNCHANGED nvOutcome
       ELSE /\ nvPc' = "cleanup"
            /\ nvOutcome' = "raised"
            /\ UNCHANGED <<nvCreated, nvSessions, nvSessionId>>
    /\ UNCHANGED <<nvEvent, nvDeletes, nvFailed, nvCount, notNova>>

\* quarantine_host: invoke_browser_action
InvokeBrowserAction(ok) ==
    /\ nvPc = "invoke"
    /\ IF ok
       THEN nvPc' = "recording" /\ UNCHANGED nvOutcome
       ELSE nvPc' = "cleanup" /\ nvOutcome' = "raised"
    /\ UNCHANGED <<nvEvent, nvSessionId, nvSessions, nvCreated, nvDeletes,
                   nvFailed, nvCount, notNova>>

\* quarantine_host: get_browser_session_recording and the return
GetBrowserSessionRecording(ok) ==
    /\ nvPc = "recording"
    /\ nvPc' = "cleanup"
    /\ nvOutcome' = IF ok THEN "success" ELSE "raised"
    /\ UNCHANGED <<nvEvent, nvSessionId, nvSessions, nvCreated, nvDeletes,
                   nvFailed, nvCount, notNova>>

\* the finally block: executor.cleanup(), then the handler returns or raises
Cleanup(ok) ==
    /\ nvPc = "cleanup"
    /\ nvPc' = "done"
    /\ IF CleanupDeletes(nvSessionId)
       THEN /\ nvDeletes' = Append(nvDeletes, nvSessionId)
            /\ IF ok
               THEN /\ nvSessions' = nvSessions \ {nvSessionId}
                    /\ UNCHANGED <<nvFailed, nvOutcome>>
               ELSE /\ nvFailed' = nvFailed \cup {nvSessionId}
                    /\ nvOutcome' = "raised"
                    /\ UNCHANGED nvSessions
       ELSE /\ ok
            /\ UNCHANGED <<nvDeletes, nvSessions, nvFailed, nvOutcome>>
    /\ UNCHANGED <<nvEvent, nvSessionId, nvCreated, nvCount, notNova>>

NovaInit ==
    /\ NovaIdle
    /\ TriageIdle
    /\ AgentIdle
    /\ ExecIdle
    /\ StoreIdle
    /\ GatewayIdle
    /\ EnrichIdle

NovaNext ==
    \/ \E event \in NovaEvents : NovaLambdaHandler(event)
    \/ \E ok \in BOOLEAN : CreateBrowserSession(ok)
    \/ \E ok \in BOOLEAN : InvokeBrowserAction(ok)
    \/ \E ok \in BOOLEAN : GetBrowserSessionRecording(ok)
    \/ \E ok \in BOOLEAN : Cleanup(ok)

NovaSpec == NovaInit /\ [][NovaNext]_vars

\* the invocation has left the handler, or none has begun
NovaReturned == nvPc \in {"idle", "done"}

\* delete_browser_session was called with this session id
DeleteIssued(session) == \E i \in DOMAIN nvDeletes : nvDeletes[i] = session

(***************************************************************************)
(* C6: version-conflict exclusion.  Of the workers that append to the      *)
(* incident on the same expected version exactly one succeeds and the      *)
(* others get VersionConflictError; no two transitions of the history are  *)
(* committed against the same version (each leaves the state the one       *)
(* before it entered), and the sequence numbers are 1, 2, 3, ... without   *)
(* gaps or duplicates.                                                     *)
(***************************************************************************)
C6_VersionConflictExclusion ==
    /\ \A i \in DOMAIN history :
          /\ history[i].seq = i
          /\ history[i].from = Replay(SubSeq(history, 1, i - 1)).state
          /\ history[i].to \in NextStates(history[i].from)
    /\ \A w \in Workers :
          /\ pc[w] = "conflict" => Len(history) > view[w].version
          /\ pc[w] = "appended" =>
                /\ pending[w].seq = view[w].version + 1
                /\ history[pending[w].seq] = pending[w]
    /\ \A w1, w2 \in Workers :
          (w1 # w2 /\ pc[w1] = "appended" /\ pc[w2] = "appended")
              => view[w1].version # view[w2].version

\* two workers appended on the same version: one committed, one got the conflict
C6_Witness ==
    \E w1, w2 \in Workers :
        /\ pc[w1] = "appended" /\ pc[w2] = "conflict"
        /\ view[w1].version = view[w2].version
        /\ view[w1].version > 0

(***************************************************************************)
(* C7: replay invariant.  The current snapshot of the incident equals the  *)
(* left fold of its event log from the empty state; a transition is in the *)
(* log before it is applied in memory, so what a worker holds in memory is *)
(* the fold of a prefix of the log, and after a crash, also one between    *)
(* append and apply, the replay on restart reflects every transition the   *)
(* worker had appended.                                                    *)
(***************************************************************************)
C7_ReplayInvariant ==
    /\ snapshot = Replay(history)
    /\ \A w \in Workers :
          /\ pc[w] \in {"read", "recovered", "conflict"} =>
                /\ view[w].version <= Len(history)
                /\ view[w] = Replay(SubSeq(history, 1, view[w].version))
                /\ view[w].version >= lastAppended[w]
          /\ pc[w] = "appended" =>
                /\ pending[w].seq \in DOMAIN history
                /\ history[pending[w].seq] = pending[w]
                /\ ApplyEvent(view[w], pending[w])
                      = Replay(SubSeq(history, 1, pending[w].seq))

\* a worker crashed between append and apply and has replayed the log
C7_Witness ==
    \E w \in Workers :
        /\ pc[w] = "recovered"
        /\ lastAppended[w] = Len(history)
        /\ view[w].state = "REMEDIATING"

(***************************************************************************)
(* C8: an approval request leaves Pending exactly once.  Once a decision   *)
(* callback or the timeout has made it Approved, Denied or Expired, no     *)
(* later resolve or timeout changes its status or its decidedAt.           *)
(***************************************************************************)
C8_TerminalIsFinal ==
    [][\A rid \in RequestIdsGw :
          requests[rid].status \in {"Approved", "Denied", "Expired"}
              => requests'[rid] = requests[rid]]_vars

\* an approval came in after the request had expired and was turned away
C8_Witness ==
    \E rid \in RequestIdsGw :
        /\ requests[rid].status = "Expired"
        /\ callbacks[rid] = 404
        /\ gwClock > requests[rid].decidedAt

(***************************************************************************)
(* C1: fail-closed approval.  Remediation of an incident that awaits       *)
(* approval starts only after an explicit Approved decision of a human for *)
(* that incident, and an approval request on a HIGH or CRITICAL alert is   *)
(* not reported as approved without such a decision.                       *)
(***************************************************************************)
ApprovalRequested(r) == runs[r].approval # NoApproval

C1_ApprovedOnlyByHuman ==
    \A r \in DOMAIN runs :
        /\ (runs[r].approval.severity \in {"HIGH", "CRITICAL"}
            /\ runs[r].approval.approved) => decision[r] = "Approved"
        /\ (ApprovalRequested(r) /\ runs[r].execute # "not_called")
              => decision[r] = "Approved"

(***************************************************************************)
(* C2: remediation idempotence.  Invoking the executor again with the same *)
(* action (same kind, target and parameters) returns the identical record  *)
(* every time and carries the action out at most once.                     *)
(***************************************************************************)
C2_ExecutorIdempotent ==
    /\ \A i, j \in DOMAIN execLog :
          execLog[i].event = execLog[j].event
              => execLog[i].response = execLog[j].response
    /\ \A i \in DOMAIN execLog : TimesApplied(execLog[i].event) <= 1

(***************************************************************************)
(* C4: dedup invariant.  There is at most one incident, and one run of the *)
(* workflow, per alert id, whatever the sequence of ingestion events.      *)
(***************************************************************************)
C4_OneIncidentPerAlertId ==
    \A i, j \in DOMAIN runs :
        runs[i].alert.alert_id = runs[j].alert.alert_id => i = j

(***************************************************************************)
(* C5: approval is requested exactly when the verdict requires it          *)
(* (severity HIGH or CRITICAL), and no incident whose verdict requires     *)
(* approval reaches remediation without having requested it.               *)
(***************************************************************************)
C5_ApprovalIffRequired ==
    \A r \in DOMAIN runs :
        /\ ApprovalRequested(r) => AlertVerdict(runs[r].alert).requires_approval
        /\ (AlertVerdict(runs[r].alert).requires_approval
            /\ runs[r].execute # "not_called") => ApprovalRequested(r)

(***************************************************************************)
(* C9: retry policy of remediation.  Every retry first checks the          *)
(* idempotency key, so whatever the sequence of failures and retries, and  *)
(* in particular after a transient failure, the action is applied at most  *)
(* once.                                                                   *)
(***************************************************************************)
C9_RetryAppliesAtMostOnce ==
    \A i, j \in DOMAIN execLog :
        (i < j /\ execLog[i].lost /\ execLog[j].event = execLog[i].event)
            => TimesApplied(execLog[i].event) <= 1

(***************************************************************************)
(* C10: workflow ordering.  The remediation action is never started for an *)
(* alert before its enrichment and its classification have completed, and  *)
(* an incident is closed only once it is remediated, denied or failed.     *)
(***************************************************************************)
C10_WorkflowOrder ==
    \A r \in DOMAIN runs :
        /\ runs[r].execute # "not_called"
              => (runs[r].enrich = "returned" /\ runs[r].classify = "returned")
        /\ runs[r].returned
              => \/ runs[r].execute # "not_called"
                 \/ (ApprovalRequested(r) /\ ~runs[r].approval.approved)

(***************************************************************************)
(* C3: the severity classifier is a deterministic pure function of the     *)
(* enrichment.  For every reputation in {unknown, benign, suspicious,      *)
(* malicious} and every confidence in [0,1] the returned score is          *)
(* (50 if malicious, else 30 if suspicious, else 0) + confidence*30, the   *)
(* severity is CRITICAL from 80, HIGH from 60, MEDIUM from 40 and LOW      *)
(* below, requires_approval is true exactly for HIGH and CRITICAL,         *)
(* (malicious, 0.92) gives 77.6/HIGH/approval, (suspicious, 0.65) gives    *)
(* 49.5/MEDIUM/no approval, and two calls on one input agree.              *)
(***************************************************************************)
C3_Base(rep) == CASE rep = "malicious" -> 50 [] rep = "suspicious" -> 30 [] OTHER -> 0

C3_SeverityOf(out) ==
    CASE out.score >= 80 * ConfScale -> "CRITICAL"
      [] out.score < 80 * ConfScale /\ out.score >= 60 * ConfScale -> "HIGH"
      [] out.score < 60 * ConfScale /\ out.score >= 40 * ConfScale -> "MEDIUM"
      [] out.score < 40 * ConfScale -> "LOW"

C3_ClassifierIsSpecified ==
    LET e == triageEvent.enrichment IN
    (e.reputation \in Reputations /\ e.confidence \in Confidences) =>
        /\ \A i \in DOMAIN triageOut :
            LET out == triageOut[i] IN
            /\ out.score = C3_Base(e.reputation) * ConfScale + e.confidence * 30
            /\ out.severity = C3_SeverityOf(out)
            /\ out.requires_approval = (out.severity \in {"HIGH", "CRITICAL"})
            \* (malicious, 0.92) -> 77.6, HIGH, approval
            /\ (e.reputation = "malicious" /\ e.confidence * 100 = 92 * ConfScale) =>
                  /\ out.score * 10 = 776 * ConfScale
                  /\ out.severity = "HIGH" /\ out.requires_approval
            \* (suspicious, 0.65) -> 49.5, MEDIUM, no approval
            /\ (e.reputation = "suspicious" /\ e.confidence * 100 = 65 * ConfScale) =>
                  /\ out.score * 10 = 495 * ConfScale
                  /\ out.severity = "MEDIUM" /\ ~out.requires_approval
        /\ \A i, j \in DOMAIN triageOut : triageOut[i] = triageOut[j]

\* the handler has answered twice on (malicious, 0.92)
C3_Witness ==
    /\ triageEvent.enrichment.reputation = "malicious"
    /\ triageEvent.enrichment.confidence * 100 = 92 * ConfScale
    /\ Len(triageOut) = 2
    /\ triageOut[1].severity = "HIGH"

(***************************************************************************)
(* C11: session release.  When an invocation of the browser-session        *)
(* executor has returned or raised, every browser session it created has   *)
(* had delete_browser_session called for it, and is closed unless that     *)
(* delete call itself failed; this holds when the action succeeds, when    *)
(* the action is unknown, when a required parameter is missing and when    *)
(* invoke_browser_action or get_browser_session_recording fails.  While    *)
(* the invocation runs, the only session open and not yet asked to be      *)
(* deleted is the one it holds.  Delete is called only with the id of a    *)
(* session that was created, and with no id twice.                         *)
(***************************************************************************)
C11_SessionRelease ==
    /\ \A i \in DOMAIN nvDeletes : nvDeletes[i] \in nvCreated
    /\ \A i, j \in DOMAIN nvDeletes : nvDeletes[i] = nvDeletes[j] => i = j
    /\ \A session \in nvSessions \ nvFailed :
          /\ ~NovaReturned
          /\ session = nvSessionId
          /\ ~DeleteIssued(session)
    /\ NovaReturned =>
          \A session \in nvCreated :
              /\ DeleteIssued(session)
              /\ session \notin nvFailed => session \notin nvSessions

\* a backend call failed after the session was created, and the handler
\* left with the session deleted; an earlier invocation created no session
C11_Witness ==
    /\ nvPc = "done"
    /\ nvCount = MaxNovaInvocations
    /\ nvOutcome = "raised"
    /\ nvEvent.action = "quarantine"
    /\ nvSessionId # NoSession
    /\ nvCreated = {nvSessionId}
    /\ nvDeletes = <<nvSessionId>>
    /\ nvSessions = {}
    /\ nvFailed = {}

(***************************************************************************)
(* C12: degraded enrichment never escalates.  For a non-empty indicator    *)
(* that the threat table of its kind does not list, or whose kind is none  *)
(* of ip, domain and hash, enrichment answers 200 with reputation unknown  *)
(* and confidence 0, and triage of that answer gives score 0, severity LOW *)
(* and requires_approval false.  For every reputation and every confidence *)
(* in [0,1] the score is in [0,80]; a reputation other than malicious or   *)
(* suspicious gives LOW; malicious gives MEDIUM or higher.                 *)
(***************************************************************************)
\* the kind the handler takes the event to be of: "ip" unless the event says
C12_KindOf(event) == IF event.type = NoKey THEN "ip" ELSE event.type

\* the four entries of the threat table, by kind and indicator
C12_Listed(event) ==
    <<C12_KindOf(event), event.indicator>> \in
        {<<"ip", "192.168.1.100">>, <<"ip", "10.0.0.50">>,
         <<"domain", "malicious-site.com">>,
         <<"hash", "d41d8cd98f00b204e9800998ecf8427e">>}

C12_Degraded(event) ==
    /\ event.indicator \notin {"", NoKey}
    /\ ~C12_Listed(event)

C12_DegradedNeverEscalates ==
    /\ (C12_Degraded(enEvent) /\ enOut # NoResponse) =>
          /\ enOut.statusCode = 200
          /\ enOut.body.reputation = "unknown"
          /\ enOut.body.confidence = 0
    /\ (C12_Degraded(enEvent) /\ enVerdict.via = "enrichment") =>
          /\ enVerdict.verdict.score = 0
          /\ enVerdict.verdict.severity = "LOW"
          /\ enVerdict.verdict.requires_approval = FALSE
    /\ enVerdict.via # "none" =>
          /\ enVerdict.verdict.score >= 0
          /\ enVerdict.verdict.score <= 80 * ConfScale
          /\ enVerdict.enrichment.reputation \notin {"malicious", "suspicious"}
                => enVerdict.verdict.severity = "LOW"
          /\ enVerdict.enrichment.reputation = "malicious"
                => enVerdict.verdict.severity \in {"MEDIUM", "HIGH", "CRITICAL"}

\* an indicator the ip table lists, looked up as a domain: enriched as
\* unknown and classified LOW
C12_Witness ==
    /\ enEvent = [indicator |-> "10.0.0.50", type |-> "domain"]
    /\ enOut.statusCode = 200
    /\ enOut.body.reputation = "unknown"
    /\ enVerdict.via = "enrichment"
    /\ enVerdict.verdict.severity = "LOW"

====
